---- MODULE Spec2Model ----
(***************************************************************************)
(* AI-StickerGrid-Maker: the client-side grid slicer (services/            *)
(* imageProcessing.ts: sliceImage, getImageDimensions, resizeImage), the   *)
(* remote collaborators (services/geminiService.ts), the App handlers      *)
(* that store and mutate the sticker segments (App.tsx, both revisions the *)
(* file holds) and the server that keeps the API key (server/index.js).    *)
(*                                                                         *)
(* Execution model: one JavaScript event loop.  Every action is one task   *)
(* (a user event, an image/canvas callback, a settled network promise)     *)
(* together with the synchronous code it runs.  A continuation that waits  *)
(* on an already settled promise is a microtask: it runs before the next   *)
(* task, so every task is guarded by Quiescent.                            *)
(***************************************************************************)
EXTENDS Integers, Sequences, FiniteSets, TLC

VARIABLES
    slice,      \* the sliceImage call: promise state, local segments array, pending toBlob callbacks
    segments,   \* App state: StickerSegment[]
    status,     \* App state: ProcessingStatus
    error,      \* App state: string | null
    settings,   \* App state: AppSettings (the apiKey)
    ui,         \* App state: isSettingsOpen, hasConfigured, isGenerating; and which revision
                \*   of App.tsx runs (rev 1: lines 1-681, rev 2: lines 682-1439)
    edit,       \* App state of the edit modal: editingSegment, editPrompt, isRegenerating,
                \*   selectedResolution, currentDimensions, isAdjustingResolution
    fs,         \* the handleFileSelect / handleGenerate call in flight: where it is suspended
    reqs,       \* the handleRegenerateSticker / handleApplyResolution calls suspended at their await
    dimReqs,    \* the getImageDimensions promises of openEditModal calls, not yet settled
    hist,       \* history: requests started, resets done, collaborator calls made
    net,        \* a geminiService call seen on its own: its fetch, the response, how it settled
    zip,        \* the JSZip archive handleDownload builds: file name -> content
    server,     \* the server (server/index.js): its config file, the request served, the response
    upload      \* App state uploadedImage, uploadedImageUrl, and the object URLs revoked so far

----------------------------------------------------------------------------
(* Bounds *)

\* a sliceImage call of the slicer specification has at most MaxCells cells
MaxCells == 4
\* source images of the slicer specification are at most MaxDim pixels wide and high
MaxDim == 5

\* the App spec slices into AppRows x AppCols cells (the call site passes 4, 4)
AppRows == 1
AppCols == 2
\* at most MaxRequests regenerate / resolution requests are started in one run
MaxRequests == 2
\* at most MaxResets calls of handleReset in one run
MaxResets == 1
\* at most MaxDimReqs getImageDimensions promises are unsettled at a time
MaxDimReqs == 1
\* at most MaxLabelEdits calls of handleUpdateLabel in one run
MaxLabelEdits == 1

\* a label of the download specification has at most MaxLabelLen characters
MaxLabelLen == 2

\* an API key stored by the server has at most MaxKeyLen characters
MaxKeyLen == 9
\* a key typed into the settings dialog has at most MaxTypedLen characters
MaxTypedLen == 4

\* at most MaxUploads files are picked for handleEditImageUpload in one run
MaxUploads == 2

\* null of `error`
NoError == "null"

----------------------------------------------------------------------------
(* Images.  A picture is the set of source regions drawn on it; a region   *)
(* is the source (file name or producing collaborator) and the offset of   *)
(* the region, kept as the numerators sx = x*W and sy = y*H of the         *)
(* real-valued offsets x*(W/cols), y*(H/rows).                             *)

Region(src, sx, sy) == [src |-> src, sx |-> sx, sy |-> sy]

\* a canvas: unsigned long width and height, and the regions painted on it
NewCanvas(w, h) == [w |-> w, h |-> h, px |-> {}]

\* ctx.clearRect(0, 0, segmentWidth, segmentHeight)
ClearRect(canvas) == [canvas EXCEPT !.px = {}]

\* ctx.drawImage(img, sx, sy, sw, sh, 0, 0, sw, sh)
DrawImage(canvas, region) == [canvas EXCEPT !.px = @ \cup {region}]

\* canvas.toDataURL('image/png'): the encoded pixels of the canvas as it is now
ToDataURL(canvas) == [kind |-> "data", px |-> canvas.px, w |-> canvas.w, h |-> canvas.h]

\* the Blob a toBlob callback receives: the pixels of the snapshot taken at the call
BlobOf(canvas) == [px |-> canvas.px, w |-> canvas.w, h |-> canvas.h]

\* ToUnsignedLong that rounds up
ToUnsignedLong_RoundUp(num, den) == (num + den - 1) \div den

\* canvas.width = segmentWidth: the real number img.width / cols converted to unsigned long
ToUnsignedLong(num, den) == num \div den

----------------------------------------------------------------------------
(* sliceImage *)

\* CellId with the roles of x and y exchanged
CellId_Transposed(x, y, cols) == x * cols + y

\* const id = y * cols + x
CellId(x, y, cols) == y * cols + x

\* DefaultLabel that numbers the stickers from 0
DefaultLabel_FromZero(id) == "sticker_" \o ToString(id)

\* label: `sticker_${y * cols + x + 1}`
DefaultLabel(id) == "sticker_" \o ToString(id + 1)

\* the object pushed by the toBlob callback of cell (x, y)
NewSegment(x, y, cols, dataUrl, blob) ==
    [id |-> CellId(x, y, cols), dataUrl |-> dataUrl, blob |-> blob,
     label |-> DefaultLabel(CellId(x, y, cols)), isProcessing |-> TRUE]

\* DrawCell without the clearRect: the earlier cells stay on the canvas
DrawCell_NoClear(canvas, file, x, y) ==
    DrawImage(canvas, Region(file.name, x * file.w, y * file.h))

\* one iteration of the loop body: clear the shared canvas, draw cell (x, y)
DrawCell(canvas, file, x, y) ==
    DrawImage(ClearRect(canvas), Region(file.name, x * file.w, y * file.h))

\* the nested loops (outer y, inner x) over the one shared canvas: the set of
\* toBlob callbacks registered, each with the dataUrl taken and the bitmap
\* snapshot made when its cell was drawn
RECURSIVE SliceLoop(_, _, _, _, _, _)
SliceLoop(canvas, file, rows, cols, x, y) ==
    IF y >= rows THEN {}
    ELSE IF x >= cols THEN SliceLoop(canvas, file, rows, cols, 0, y + 1)
    ELSE LET drawn == DrawCell(canvas, file, x, y)
         IN  {[x |-> x, y |-> y, dataUrl |-> ToDataURL(drawn), snap |-> drawn]}
                 \cup SliceLoop(drawn, file, rows, cols, x + 1, y)

\* Array.prototype.sort((a, b) => a.id - b.id): stable insertion by id
RECURSIVE InsertById(_, _)
InsertById(seg, sorted) ==
    IF sorted = <<>> THEN <<seg>>
    ELSE IF seg.id < Head(sorted).id THEN <<seg>> \o sorted
    ELSE <<Head(sorted)>> \o InsertById(seg, Tail(sorted))

\* SortById without the sort: the array in push order
SortById_None(segs) == segs

RECURSIVE SortById(_)
SortById(segs) ==
    IF segs = <<>> THEN <<>>
    ELSE InsertById(segs[Len(segs)], SortById(SubSeq(segs, 1, Len(segs) - 1)))

\* no sliceImage call exists.  `order` (ids in the order their callbacks
\* pushed) and `failed` (ids whose callback got null) record the history of
\* the call; the code does not read them
NoSlice ==
    [pc |-> "none", file |-> [name |-> "", ok |-> FALSE, w |-> 0, h |-> 0],
     rows |-> 0, cols |-> 0, segments |-> <<>>, pending |-> {},
     result |-> <<>>, error |-> NoError, order |-> <<>>, failed |-> {}]

\* sliceImage(file, rows, cols) up to `img.src = url`: the promise is pending
SliceCall(file, rows, cols) ==
    [pc |-> "loading", file |-> file, rows |-> rows, cols |-> cols,
     segments |-> <<>>, pending |-> {}, result |-> <<>>, error |-> NoError,
     order |-> <<>>, failed |-> {}]

\* a continuation of an async handler is ready to run as a microtask
MicrotaskReady ==
    fs.pc = "awaitSlice" /\ slice.pc \in {"resolved", "rejected"}

Quiescent == ~MicrotaskReady

appVars == <<segments, status, error, settings, ui, edit, fs, reqs, dimReqs, hist, net, zip, server, upload>>

\* img.onerror: the file does not decode
ImgOnError ==
    /\ Quiescent
    /\ slice.pc = "loading"
    /\ ~slice.file.ok
    /\ slice' = [slice EXCEPT !.pc = "rejected", !.error = "Failed to load image"]
    /\ UNCHANGED appVars

\* img.onload, segmentWidth === 0 || segmentHeight === 0
ImgOnLoadTooSmall ==
    /\ Quiescent
    /\ slice.pc = "loading"
    /\ slice.file.ok
    /\ (slice.file.w = 0 \/ slice.file.h = 0)
    /\ slice' = [slice EXCEPT !.pc = "rejected", !.error = "Image dimensions are too small"]
    /\ UNCHANGED appVars

\* img.onload, canvas.getContext('2d') returned null
ImgOnLoadNoContext ==
    /\ Quiescent
    /\ slice.pc = "loading"
    /\ slice.file.ok
    /\ ~(slice.file.w = 0 \/ slice.file.h = 0)
    /\ slice' = [slice EXCEPT !.pc = "rejected", !.error = "Could not get canvas context"]
    /\ UNCHANGED appVars

\* img.onload, the loops: every cell is drawn and its toBlob is requested
ImgOnLoadDraw ==
    /\ Quiescent
    /\ slice.pc = "loading"
    /\ slice.file.ok
    /\ ~(slice.file.w = 0 \/ slice.file.h = 0)
    /\ LET canvas == NewCanvas(ToUnsignedLong(slice.file.w, slice.cols),
                               ToUnsignedLong(slice.file.h, slice.rows))
       IN  slice' = [slice EXCEPT !.pc = "encoding",
                                  !.pending = SliceLoop(canvas, slice.file, slice.rows, slice.cols, 0, 0)]
    /\ UNCHANGED appVars

\* BatchComplete that is satisfied by the first push
BatchComplete_AtFirst(segs, rows, cols) == Len(segs) >= 1

\* if (segments.length === rows * cols)
BatchComplete(segs, rows, cols) == Len(segs) = rows * cols

\* the segments array after the callback of cb pushed its segment, sorted
\* when that push completed the batch
PushSegment(segs, cb, blob, rows, cols) ==
    LET pushed == Append(segs, NewSegment(cb.x, cb.y, cols, cb.dataUrl, blob))
    IN  IF BatchComplete(pushed, rows, cols) THEN SortById(pushed) ELSE pushed

\* a toBlob callback fires with a blob: push, and resolve when all are in
ToBlobDone(cb) ==
    /\ Quiescent
    /\ slice.pc = "encoding"
    /\ cb \in slice.pending
    /\ cb.snap.w > 0 /\ cb.snap.h > 0
    /\ LET segs == PushSegment(slice.segments, cb, BlobOf(cb.snap), slice.rows, slice.cols)
       IN  slice' = [slice EXCEPT
                        !.pending = @ \ {cb},
                        !.segments = segs,
                        !.order = Append(@, CellId(cb.x, cb.y, slice.cols)),
                        !.pc = IF BatchComplete(segs, slice.rows, slice.cols) THEN "resolved" ELSE @,
                        !.result = IF BatchComplete(segs, slice.rows, slice.cols) THEN segs ELSE @]
    /\ UNCHANGED appVars

\* a toBlob callback fires with null (a bitmap without pixels, or the encoder
\* failed): the callback does nothing
ToBlobNull(cb) ==
    /\ Quiescent
    /\ slice.pc = "encoding"
    /\ cb \in slice.pending
    /\ slice' = [slice EXCEPT !.pending = @ \ {cb},
                              !.failed = @ \cup {CellId(cb.x, cb.y, slice.cols)}]
    /\ UNCHANGED appVars


----------------------------------------------------------------------------
(* The collaborator clients of geminiService.ts, from their fetch on.  All *)
(* four have the same shape: await fetch, then on !response.ok await       *)
(* response.json() and throw, else await response.json() and return.       *)

Collaborators ==
    {"generateStickerLabels", "generateStickerSheet", "regenerateSticker", "upscaleImage"}

\* the status codes a response can carry
StatusCodes == {200, 201, 400, 401, 403, 404, 500, 502}

\* the bodies a response can carry: a JSON array of labels, {imageBase64},
\* {error: "..."} , {error: ""}, {}, JSON null, and text that is no JSON
\* (the page of a proxy or of a catch-all route)
Bodies == {"labels", "image", "error", "emptyError", "noError", "null", "html"}

\* the message of an {error: "..."} body
ServerMessage == "server error message"

\* nothing was returned to the caller
NoPayload == "none"

\* ResponseOk that takes every status below 500 as a success
ResponseOk_Below500(code) == code < 500

\* Response.ok: the status is in the range 200-299
ResponseOk(code) == code >= 200 /\ code <= 299

\* the second operand of `err.error || "..."`
DefaultMessage(kind) ==
    CASE kind = "generateStickerLabels" -> "Failed to generate labels"
      [] kind = "generateStickerSheet" -> "Failed to generate sticker sheet"
      [] kind = "regenerateSticker" -> "Failed to regenerate sticker"
      [] kind = "upscaleImage" -> "Failed to upscale image"

\* a settled promise
Rejected(message) == [outcome |-> "rejected", message |-> message, payload |-> NoPayload]
Resolved(payload) == [outcome |-> "resolved", message |-> "", payload |-> payload]

\* if (!response.ok) { const err = await response.json(); throw new Error(err.error || "...") }
ThrowFromErrorBody(kind, body) ==
    CASE body = "html" -> Rejected("SyntaxError: Unexpected token")
      [] body = "null" -> Rejected("TypeError: Cannot read properties of null")
      [] body = "error" -> Rejected(ServerMessage)
      [] OTHER -> Rejected(DefaultMessage(kind))

\* generateStickerLabels: return response.json()
\* the others: const data = await response.json(); return base64ToBlob(data.imageBase64)
ReturnFromBody(kind, body) ==
    IF body = "html" THEN Rejected("SyntaxError: Unexpected token")
    ELSE IF kind = "generateStickerLabels" THEN Resolved(body)
    ELSE CASE body = "image" -> Resolved("image")
           [] body = "null" -> Rejected("TypeError: Cannot read properties of null")
           [] OTHER -> Rejected("InvalidCharacterError")

\* how the call settles once the response is there
SettleOnResponse(kind, code, body) ==
    IF ~ResponseOk(code) THEN ThrowFromErrorBody(kind, body) ELSE ReturnFromBody(kind, body)

\* no call is looked at
NoCall ==
    [pc |-> "none", kind |-> "", code |-> 0, body |-> "",
     outcome |-> "pending", message |-> "", payload |-> NoPayload]

\* the call of collaborator `kind`, suspended at `await fetch(...)`
FetchCall(kind) == [NoCall EXCEPT !.pc = "fetching", !.kind = kind]

otherVars ==
    <<slice, segments, status, error, settings, ui, edit, fs, reqs, dimReqs, hist,
      zip, server, upload>>

\* fetch resolved with a response
FetchResponds(code, body) ==
    /\ net.pc = "fetching"
    /\ net' = [net EXCEPT !.pc = "responded", !.code = code, !.body = body]
    /\ UNCHANGED otherVars

\* fetch rejected: there is no response (network error)
FetchFails ==
    /\ net.pc = "fetching"
    /\ net' = [net EXCEPT !.pc = "settled", !.outcome = "rejected",
                          !.message = "TypeError: Failed to fetch"]
    /\ UNCHANGED otherVars

\* `await response.json()` settled: the call throws or returns
BodyRead ==
    /\ net.pc = "responded"
    /\ LET settled == SettleOnResponse(net.kind, net.code, net.body)
       IN  net' = [net EXCEPT !.pc = "settled", !.outcome = settled.outcome,
                              !.message = settled.message, !.payload = settled.payload]
    /\ UNCHANGED otherVars

----------------------------------------------------------------------------
(* App state and the values it holds *)

\* const resolutionPresets: ResolutionPreset[] = [256, 512, 1024, 2048]
resolutionPresets == {256, 512, 1024, 2048}

\* null of editingSegment, selectedResolution and currentDimensions
NoBlob == [px |-> {}, w |-> 0, h |-> 0]
NoSegment ==
    [id |-> -1, dataUrl |-> [kind |-> "none", px |-> {}, w |-> 0, h |-> 0],
     blob |-> NoBlob, label |-> "", isProcessing |-> FALSE]
NoResolution == 0
NoDimensions == [width |-> -1, height |-> -1]

\* the files a user can drop or the sheet generator can return: a sheet whose
\* cells are 512 x 512, a file that is no image, an image without pixels
AppFiles ==
    {[name |-> "A", ok |-> TRUE, w |-> 512 * AppCols, h |-> 512 * AppRows],
     [name |-> "X", ok |-> FALSE, w |-> 0, h |-> 0],
     [name |-> "Z", ok |-> TRUE, w |-> 0, h |-> 0]}

\* what the label collaborator can answer, what a user can type, and
\* the presets a user picks (below, equal to and above the 512 of a cell)
LabelLists == {<<>>, <<"cat", "", "dog">>}
UserLabels == {"mine"}
EditPrompts == {"", "fix"}
PresetChoices == {p \in resolutionPresets : p <= 1024}

\* URL.createObjectURL(blob): a URL that shows the blob
CreateObjectURL(blob) == [kind |-> "blob", px |-> blob.px, w |-> blob.w, h |-> blob.h]

\* the edit modal state that closeEditModal and openEditModal (re)set
ClosedModal ==
    [seg |-> NoSegment, prompt |-> "", isRegenerating |-> FALSE,
     selectedResolution |-> NoResolution, currentDimensions |-> NoDimensions,
     isAdjustingResolution |-> FALSE]

\* new JSZip(): no file yet, nothing added, generateAsync not called
NoArchive == [pc |-> "none", files |-> [name \in {} |-> NoBlob], added |-> 0]

\* null of uploadedImageUrl
NoUrl == NoSegment.dataUrl

\* uploadedImage and uploadedImageUrl are null, no object URL was revoked
NoUpload == [image |-> NoBlob, url |-> NoUrl, revoked |-> {}, picks |-> 0]

InitApp ==
    /\ zip = NoArchive
    /\ upload = NoUpload
    /\ segments = <<>>
    /\ status = "idle"
    /\ error = NoError
    /\ settings = [apiKey |-> "", loaded |-> FALSE]
    /\ ui = [isSettingsOpen |-> FALSE, hasConfigured |-> FALSE, isGenerating |-> FALSE, rev |-> 2]
    /\ edit = ClosedModal
    /\ fs = [pc |-> "none", file |-> NoSlice.file]
    /\ reqs = {}
    /\ dimReqs = {}
    /\ hist = [nextReq |-> 1, resets |-> 0, edits |-> 0, upscaleCalls |-> 0, resizeCalls |-> 0]

\* render conditions: which controls exist and can be clicked.  The user
\* works with the pointer: the edit modal and the settings dialog are
\* `fixed inset-0 z-50` overlays, so while one is shown the controls of the
\* page beneath it (header included) are out of reach, and the edit modal,
\* later in the document, lies over the settings dialog.
ModalShown == edit.seg # NoSegment
SettingsShown == ui.isSettingsOpen /\ ~ModalShown
PageReachable == ~ModalShown /\ ~ui.isSettingsOpen
MainShown == ui.hasConfigured /\ PageReachable
UploadShown == MainShown /\ status = "idle"
ErrorShown == MainShown /\ status = "error"
\* revision 2 renders the grid at 'complete' only, revision 1 also while the
\* labels are awaited: segments.length > 0 && (status === 'analyzing' || ...)
GridShown ==
    /\ MainShown
    /\ Len(segments) > 0
    /\ status = "complete" \/ (ui.rev = 1 /\ status = "analyzing")

\* MarkProcessing without the id test: every segment gets the flag
MarkProcessing_All(segs, id, flag) ==
    [i \in 1..Len(segs) |-> [segs[i] EXCEPT !.isProcessing = flag]]

\* prev.map(s => s.id === id ? { ...s, isProcessing: flag } : s)
MarkProcessing(segs, id, flag) ==
    [i \in 1..Len(segs) |->
        IF segs[i].id = id THEN [segs[i] EXCEPT !.isProcessing = flag] ELSE segs[i]]

\* ReplaceImage that swaps the blob in and leaves the old preview
ReplaceImage_KeepsUrl(segs, id, blob, dataUrl) ==
    [i \in 1..Len(segs) |->
        IF segs[i].id = id
        THEN [segs[i] EXCEPT !.blob = blob, !.isProcessing = FALSE]
        ELSE segs[i]]

\* ReplaceImage that writes into the segment the edit modal shows now
\* instead of the segment the handler was started on
ReplaceImage_OpenSegment(segs, id, blob, dataUrl) ==
    [i \in 1..Len(segs) |->
        IF segs[i].id = edit.seg.id
        THEN [segs[i] EXCEPT !.blob = blob, !.dataUrl = dataUrl, !.isProcessing = FALSE]
        ELSE segs[i]]

\* prev.map(s => s.id === id ? { ...s, blob, dataUrl, isProcessing: false } : s)
ReplaceImage(segs, id, blob, dataUrl) ==
    [i \in 1..Len(segs) |->
        IF segs[i].id = id
        THEN [segs[i] EXCEPT !.blob = blob, !.dataUrl = dataUrl, !.isProcessing = FALSE]
        ELSE segs[i]]

----------------------------------------------------------------------------
(* Settings *)

\* getServerConfig().then(...) of the mount effect.  The request settles
\* before the first file is processed (see FileSelect).
LoadConfigDone(key) ==
    /\ Quiescent
    /\ ~settings.loaded
    /\ settings' = [apiKey |-> key, loaded |-> TRUE]
    /\ ui' = [ui EXCEPT !.hasConfigured = IF key # "" THEN TRUE ELSE @]
    /\ UNCHANGED <<slice, segments, status, error, edit, fs, reqs, dimReqs, hist, net, zip, server, upload>>

\* getServerConfig().catch(...)
LoadConfigFailed ==
    /\ Quiescent
    /\ ~settings.loaded
    /\ settings' = [settings EXCEPT !.loaded = TRUE]
    /\ UNCHANGED <<slice, segments, status, error, ui, edit, fs, reqs, dimReqs, hist, net, zip, server, upload>>

\* onClick={() => setIsSettingsOpen(true)}: the header button, or the
\* button of the not-configured panel.  The user opens the settings only
\* while nothing is being worked on (status idle).
OpenSettings ==
    /\ Quiescent
    /\ PageReachable
    /\ status = "idle"
    /\ ui' = [ui EXCEPT !.isSettingsOpen = TRUE]
    /\ UNCHANGED <<slice, segments, status, error, settings, edit, fs, reqs, dimReqs, hist, net, zip, server, upload>>

\* onClick={() => setIsSettingsOpen(false)}
CloseSettings ==
    /\ Quiescent
    /\ SettingsShown
    /\ ui' = [ui EXCEPT !.isSettingsOpen = FALSE]
    /\ UNCHANGED <<slice, segments, status, error, settings, edit, fs, reqs, dimReqs, hist, net, zip, server, upload>>

\* saveSettings, saveServerConfig resolved (the apiKey input is `required`)
SaveSettingsDone ==
    /\ Quiescent
    /\ SettingsShown
    /\ settings' = [settings EXCEPT !.apiKey = "key"]
    /\ ui' = [ui EXCEPT !.hasConfigured = TRUE, !.isSettingsOpen = FALSE]
    /\ UNCHANGED <<slice, segments, status, error, edit, fs, reqs, dimReqs, hist, net, zip, server, upload>>

\* saveSettings, saveServerConfig rejected
SaveSettingsFailed ==
    /\ Quiescent
    /\ SettingsShown
    /\ error' = "Failed to save settings to server."
    /\ UNCHANGED <<slice, segments, status, settings, ui, edit, fs, reqs, dimReqs, hist, net, zip, server, upload>>

----------------------------------------------------------------------------
(* handleFileSelect, handleGenerate, handleReset, handleUpdateLabel *)

\* handleFileSelect(file) with an apiKey, up to `await sliceImage(file, 4, 4)`
FileSelectBody(file) ==
    /\ status' = "slicing"
    /\ error' = NoError
    /\ segments' = <<>>
    /\ slice' = SliceCall(file, AppRows, AppCols)
    /\ fs' = [pc |-> "awaitSlice", file |-> file]

\* handleFileSelect without an apiKey
FileSelectNoKey ==
    /\ Quiescent
    /\ UploadShown
    /\ settings.apiKey = ""
    /\ ui' = [ui EXCEPT !.isSettingsOpen = TRUE]
    /\ UNCHANGED <<slice, segments, status, error, settings, edit, fs, reqs, dimReqs, hist, net, zip, server, upload>>

\* the DropZone hands a file to handleFileSelect; the user does so after the
\* config request of the mount effect has settled.  One handleFileSelect /
\* handleGenerate call is followed at a time: the next one starts when the
\* label request of the one before has settled.
FileSelect(file) ==
    /\ Quiescent
    /\ UploadShown
    /\ fs.pc = "none"
    /\ settings.loaded
    /\ settings.apiKey # ""
    /\ FileSelectBody(file)
    /\ UNCHANGED <<settings, ui, edit, reqs, dimReqs, hist, net, zip, server, upload>>

\* `await sliceImage` resolved: store the batch, start generateStickerLabels
FileSelectSliced ==
    /\ fs.pc = "awaitSlice"
    /\ slice.pc = "resolved"
    /\ segments' = slice.result
    /\ status' = "analyzing"
    /\ fs' = [fs EXCEPT !.pc = "awaitLabels"]
    /\ slice' = NoSlice
    /\ UNCHANGED <<error, settings, ui, edit, reqs, dimReqs, hist, net, zip, server, upload>>

\* FileSelectSliceFailed whose catch block forgets setStatus('error')
FileSelectSliceFailed_NoStatus ==
    /\ fs.pc = "awaitSlice"
    /\ slice.pc = "rejected"
    /\ error' = slice.error
    /\ fs' = [pc |-> "none", file |-> NoSlice.file]
    /\ slice' = NoSlice
    /\ UNCHANGED <<segments, status, settings, ui, edit, reqs, dimReqs, hist, net, zip, server, upload>>

\* `await sliceImage` rejected: the catch block
FileSelectSliceFailed ==
    /\ fs.pc = "awaitSlice"
    /\ slice.pc = "rejected"
    /\ error' = slice.error
    /\ status' = "error"
    /\ fs' = [pc |-> "none", file |-> NoSlice.file]
    /\ slice' = NoSlice
    /\ UNCHANGED <<segments, settings, ui, edit, reqs, dimReqs, hist, net, zip, server, upload>>

\* EnrichedLabel that takes the entry of the list even when it is empty
EnrichedLabel_Any(labels, idx, seg) ==
    IF idx <= Len(labels) THEN labels[idx] ELSE seg.label

\* label: labels[idx] || seg.label
EnrichedLabel(labels, idx, seg) ==
    IF idx <= Len(labels) /\ labels[idx] # "" THEN labels[idx] ELSE seg.label

\* ApplyLabels that maps over the shorter of the two lists
ApplyLabels_Zipped(segs, labels) ==
    [idx \in 1..(IF Len(labels) < Len(segs) THEN Len(labels) ELSE Len(segs)) |->
        [segs[idx] EXCEPT !.label = EnrichedLabel(labels, idx, segs[idx]),
                          !.isProcessing = FALSE]]

\* prev.map((seg, idx) => ({...seg, label: labels[idx] || seg.label, isProcessing: false}))
ApplyLabels(segs, labels) ==
    [idx \in 1..Len(segs) |->
        [segs[idx] EXCEPT !.label = EnrichedLabel(labels, idx, segs[idx]),
                          !.isProcessing = FALSE]]

\* ClearAllProcessing that empties the store
ClearAllProcessing_Drop(segs) == <<>>

\* prev.map(s => ({ ...s, isProcessing: false }))
ClearAllProcessing(segs) ==
    [i \in 1..Len(segs) |-> [segs[i] EXCEPT !.isProcessing = FALSE]]

\* generateStickerLabels(...).then(labels => ...)
LabelsDone(labels) ==
    /\ Quiescent
    /\ fs.pc = "awaitLabels"
    /\ segments' = ApplyLabels(segments, labels)
    /\ status' = "complete"
    /\ fs' = [pc |-> "none", file |-> NoSlice.file]
    /\ UNCHANGED <<slice, error, settings, ui, edit, reqs, dimReqs, hist, net, zip, server, upload>>

\* generateStickerLabels(...).catch, the message includes "401" or "403"
LabelsFailedAuth ==
    /\ Quiescent
    /\ fs.pc = "awaitLabels"
    /\ error' = "Invalid API Key. Please check settings."
    /\ status' = "error"
    /\ ui' = [ui EXCEPT !.hasConfigured = FALSE, !.isSettingsOpen = TRUE]
    /\ fs' = [pc |-> "none", file |-> NoSlice.file]
    /\ UNCHANGED <<slice, segments, settings, edit, reqs, dimReqs, hist, net, zip, server, upload>>

\* generateStickerLabels(...).catch, any other message
LabelsFailed ==
    /\ Quiescent
    /\ fs.pc = "awaitLabels"
    /\ status' = "complete"
    /\ segments' = ClearAllProcessing(segments)
    /\ fs' = [pc |-> "none", file |-> NoSlice.file]
    /\ UNCHANGED <<slice, error, settings, ui, edit, reqs, dimReqs, hist, net, zip, server, upload>>

\* handleGenerate without an apiKey
GenerateNoKey ==
    /\ Quiescent
    /\ UploadShown
    /\ ~ui.isGenerating
    /\ settings.apiKey = ""
    /\ ui' = [ui EXCEPT !.isSettingsOpen = TRUE]
    /\ UNCHANGED <<slice, segments, status, error, settings, edit, fs, reqs, dimReqs, hist, net, zip, server, upload>>

\* handleGenerate up to `await generateStickerSheet(...)`
Generate ==
    /\ Quiescent
    /\ UploadShown
    /\ fs.pc = "none"
    /\ ~ui.isGenerating
    /\ settings.loaded
    /\ settings.apiKey # ""
    /\ ui' = [ui EXCEPT !.isGenerating = TRUE]
    /\ status' = "slicing"
    /\ error' = NoError
    /\ segments' = <<>>
    /\ fs' = [pc |-> "awaitSheet", file |-> NoSlice.file]
    /\ UNCHANGED <<slice, settings, edit, reqs, dimReqs, hist, net, zip, server, upload>>

\* generateStickerSheet resolved: handleFileSelect(file) of the render that
\* started the generation, which had an apiKey
GenerateDone(file) ==
    /\ Quiescent
    /\ fs.pc = "awaitSheet"
    /\ ui' = [ui EXCEPT !.isGenerating = FALSE]
    /\ FileSelectBody(file)
    /\ UNCHANGED <<settings, edit, reqs, dimReqs, hist, net, zip, server, upload>>

\* generateStickerSheet rejected
GenerateFailed ==
    /\ Quiescent
    /\ fs.pc = "awaitSheet"
    /\ ui' = [ui EXCEPT !.isGenerating = FALSE]
    /\ error' = "Failed to generate image."
    /\ status' = "error"
    /\ fs' = [pc |-> "none", file |-> NoSlice.file]
    /\ UNCHANGED <<slice, segments, settings, edit, reqs, dimReqs, hist, net, zip, server, upload>>

\* prev.map(seg => seg.id === id ? { ...seg, label: newLabel } : seg)
SetLabel(segs, id, newLabel) ==
    [i \in 1..Len(segs) |->
        IF segs[i].id = id THEN [segs[i] EXCEPT !.label = newLabel] ELSE segs[i]]

\* handleUpdateLabel(id, newLabel), from the label input of a grid cell
UpdateLabel(id, newLabel) ==
    /\ Quiescent
    /\ GridShown
    /\ \E i \in 1..Len(segments) : segments[i].id = id /\ segments[i].label # newLabel
    /\ hist.edits < MaxLabelEdits
    /\ segments' = SetLabel(segments, id, newLabel)
    /\ hist' = [hist EXCEPT !.edits = @ + 1]
    /\ UNCHANGED <<slice, status, error, settings, ui, edit, fs, reqs, dimReqs, net, zip, server, upload>>

\* handleReset, from the grid's reset button or the error panel
Reset ==
    /\ Quiescent
    /\ GridShown \/ ErrorShown
    /\ hist.resets < MaxResets
    /\ segments' = <<>>
    /\ status' = "idle"
    /\ error' = NoError
    /\ ui' = [ui EXCEPT !.isGenerating = FALSE]
    /\ hist' = [hist EXCEPT !.resets = @ + 1]
    /\ UNCHANGED <<slice, settings, edit, fs, reqs, dimReqs, net, zip, server, upload>>

----------------------------------------------------------------------------
(* The edit modal: openEditModal, closeEditModal, handleRegenerateSticker, *)
(* handleApplyResolution                                                   *)

\* a free slot for an unsettled getImageDimensions promise
FreeDimSlots == (1..MaxDimReqs) \ {d.k : d \in dimReqs}

\* openEditModal(segment) up to `await getImageDimensions(segment.blob)`
OpenEditModal(i) ==
    /\ Quiescent
    /\ GridShown
    /\ i \in 1..Len(segments)
    /\ FreeDimSlots # {}
    /\ edit' = [ClosedModal EXCEPT !.seg = segments[i],
                                   !.currentDimensions = edit.currentDimensions]
    /\ dimReqs' = dimReqs \cup {[k |-> CHOOSE k \in FreeDimSlots : TRUE, blob |-> segments[i].blob]}
    /\ upload' = [upload EXCEPT !.image = NoBlob, !.url = NoUrl]
    /\ UNCHANGED <<slice, segments, status, error, settings, ui, fs, reqs, hist, net, zip, server>>

\* getImageDimensions: img.onload resolves with { width: img.width, height: img.height }
ImageDimensions(blob) == [width |-> blob.w, height |-> blob.h]

\* openEditModal resumed: setCurrentDimensions(dimensions)
DimensionsDone(d) ==
    /\ Quiescent
    /\ d \in dimReqs
    /\ edit' = [edit EXCEPT !.currentDimensions = ImageDimensions(d.blob)]
    /\ dimReqs' = dimReqs \ {d}
    /\ UNCHANGED <<slice, segments, status, error, settings, ui, fs, reqs, hist, net, zip, server, upload>>

\* a blob returned by a remote collaborator, which need not decode
RemoteMade(blob) == \E reg \in blob.px : reg.src \in {"regenerate", "upscale"}

\* openEditModal resumed in its catch: setCurrentDimensions(null)
DimensionsFailed(d) ==
    /\ Quiescent
    /\ d \in dimReqs
    /\ RemoteMade(d.blob)
    /\ edit' = [edit EXCEPT !.currentDimensions = NoDimensions]
    /\ dimReqs' = dimReqs \ {d}
    /\ UNCHANGED <<slice, segments, status, error, settings, ui, fs, reqs, hist, net, zip, server, upload>>

\* the state closeEditModal sets (isRegenerating is not among it)
CloseModal(e) ==
    [e EXCEPT !.seg = NoSegment, !.prompt = "", !.selectedResolution = NoResolution,
              !.currentDimensions = NoDimensions, !.isAdjustingResolution = FALSE]

\* URL.revokeObjectURL(url)
RevokeObjectURL(u, url) == [u EXCEPT !.revoked = @ \cup {url}]

\* the end of closeEditModal: setUploadedImage(null) and
\* if (uploadedImageUrl) { URL.revokeObjectURL(uploadedImageUrl); setUploadedImageUrl(null) }
CloseUpload(u) ==
    IF u.url # NoUrl
    THEN [RevokeObjectURL(u, u.url) EXCEPT !.image = NoBlob, !.url = NoUrl]
    ELSE [u EXCEPT !.image = NoBlob]

\* closeEditModal, from the modal's X and Cancel buttons
CloseEditModal ==
    /\ Quiescent
    /\ ModalShown
    /\ edit' = CloseModal(edit)
    /\ upload' = CloseUpload(upload)
    /\ UNCHANGED <<slice, segments, status, error, settings, ui, fs, reqs, dimReqs, hist, net, zip, server>>

\* the instruction textarea: setEditPrompt(e.target.value)
SetEditPrompt(p) ==
    /\ Quiescent
    /\ ModalShown
    /\ edit.prompt # p
    /\ edit' = [edit EXCEPT !.prompt = p]
    /\ UNCHANGED <<slice, segments, status, error, settings, ui, fs, reqs, dimReqs, hist, net, zip, server, upload>>

\* a preset button: setSelectedResolution(preset)
SelectResolution(preset) ==
    /\ Quiescent
    /\ ModalShown
    /\ edit.selectedResolution # preset
    /\ edit' = [edit EXCEPT !.selectedResolution = preset]
    /\ UNCHANGED <<slice, segments, status, error, settings, ui, fs, reqs, dimReqs, hist, net, zip, server, upload>>

\* a handler call suspended at its await.  Its closure holds editingSegment
\* (of which the code reads id and blob) and selectedResolution; n numbers
\* the requests and epoch is the number of resets before it started.
Request(kind, target) ==
    [n |-> hist.nextReq, kind |-> kind, id |-> edit.seg.id, blob |-> edit.seg.blob,
     target |-> target, epoch |-> hist.resets]

\* the history after a handler started a request by calling collaborator `kind`
Started(kind) ==
    [hist EXCEPT !.nextReq = @ + 1,
                 !.upscaleCalls = IF kind = "upscale" THEN @ + 1 ELSE @,
                 !.resizeCalls = IF kind = "resize" THEN @ + 1 ELSE @]

\* handleRegenerateSticker up to `await regenerateSticker(...)`; the button
\* is rendered when no resolution is selected
RegenerateSticker ==
    /\ Quiescent
    /\ ModalShown
    /\ edit.selectedResolution = NoResolution
    /\ ~edit.isRegenerating
    /\ edit.prompt # ""
    /\ hist.nextReq <= MaxRequests
    /\ reqs' = reqs \cup {Request("regenerate", NoResolution)}
    /\ hist' = Started("regenerate")
    /\ edit' = [edit EXCEPT !.isRegenerating = TRUE]
    /\ segments' = MarkProcessing(segments, edit.seg.id, TRUE)
    /\ UNCHANGED <<slice, status, error, settings, ui, fs, dimReqs, net, zip, server, upload>>

\* what the regenerate collaborator returns for request r
RegeneratedBlob(r) ==
    [px |-> {Region("regenerate", r.n, 0)}, w |-> r.blob.w, h |-> r.blob.h]

\* regenerateSticker resolved: swap the image in, closeEditModal()
RegenerateDone(r) ==
    /\ Quiescent
    /\ r \in reqs
    /\ r.kind = "regenerate"
    /\ segments' = ReplaceImage(segments, r.id, RegeneratedBlob(r),
                                CreateObjectURL(RegeneratedBlob(r)))
    /\ edit' = CloseModal(edit)
    /\ reqs' = reqs \ {r}
    /\ UNCHANGED <<slice, status, error, settings, ui, fs, dimReqs, hist, net, zip, server, upload>>

\* regenerateSticker rejected: the catch block
RegenerateFailed(r) ==
    /\ Quiescent
    /\ r \in reqs
    /\ r.kind = "regenerate"
    /\ error' = "Failed to regenerate sticker"
    /\ segments' = MarkProcessing(segments, r.id, FALSE)
    /\ edit' = [edit EXCEPT !.isRegenerating = FALSE]
    /\ reqs' = reqs \ {r}
    /\ UNCHANGED <<slice, status, settings, ui, fs, dimReqs, hist, net, zip, server, upload>>

\* ResolutionPath with >= for >: an equal size goes to the remote upscaler
ResolutionPath_Strict(selectedResolution, currentWidth) ==
    IF selectedResolution >= currentWidth THEN "upscale" ELSE "resize"

\* ResolutionPath with the operands of the comparison exchanged
ResolutionPath_Reversed(selectedResolution, currentWidth) ==
    IF currentWidth > selectedResolution THEN "upscale" ELSE "resize"

\* if (selectedResolution > currentWidth) upscaleImage else resizeImage
ResolutionPath(selectedResolution, currentWidth) ==
    IF selectedResolution > currentWidth THEN "upscale" ELSE "resize"

\* handleApplyResolution up to its await; the button is rendered when a
\* resolution is selected
ApplyResolution ==
    /\ Quiescent
    /\ ModalShown
    /\ edit.selectedResolution # NoResolution
    /\ ~edit.isAdjustingResolution
    /\ edit.currentDimensions # NoDimensions
    /\ hist.nextReq <= MaxRequests
    /\ LET kind == ResolutionPath(edit.selectedResolution, edit.currentDimensions.width)
       IN  /\ reqs' = reqs \cup {Request(kind, edit.selectedResolution)}
           /\ hist' = Started(kind)
    /\ edit' = [edit EXCEPT !.isAdjustingResolution = TRUE]
    /\ segments' = MarkProcessing(segments, edit.seg.id, TRUE)
    /\ UNCHANGED <<slice, status, error, settings, ui, fs, dimReqs, net, zip, server, upload>>

\* resizeImage(blob, targetSize): the picture drawn on a targetSize x targetSize canvas
ResizedBlob(blob, targetSize) == [px |-> blob.px, w |-> targetSize, h |-> targetSize]

\* what the upscale collaborator returns for request r
UpscaledBlob(r) == [px |-> {Region("upscale", r.n, 0)}, w |-> r.target, h |-> r.target]

\* newBlob of handleApplyResolution
AdjustedBlob(r) ==
    IF r.kind = "upscale" THEN UpscaledBlob(r) ELSE ResizedBlob(r.blob, r.target)

\* upscaleImage / resizeImage resolved: swap the image in, closeEditModal()
ApplyResolutionDone(r) ==
    /\ Quiescent
    /\ r \in reqs
    /\ r.kind \in {"upscale", "resize"}
    /\ segments' = ReplaceImage(segments, r.id, AdjustedBlob(r),
                                CreateObjectURL(AdjustedBlob(r)))
    /\ edit' = CloseModal(edit)
    /\ reqs' = reqs \ {r}
    /\ UNCHANGED <<slice, status, error, settings, ui, fs, dimReqs, hist, net, zip, server, upload>>

\* upscaleImage / resizeImage rejected: the catch block
ApplyResolutionFailed(r) ==
    /\ Quiescent
    /\ r \in reqs
    /\ r.kind \in {"upscale", "resize"}
    /\ error' = IF r.kind = "upscale" THEN "Failed to upscale image"
                ELSE "Failed to create blob from canvas"
    /\ segments' = MarkProcessing(segments, r.id, FALSE)
    /\ edit' = [edit EXCEPT !.isAdjustingResolution = FALSE]
    /\ reqs' = reqs \ {r}
    /\ UNCHANGED <<slice, status, settings, ui, fs, dimReqs, hist, net, zip, server, upload>>

----------------------------------------------------------------------------
(* Replacing a sticker by an uploaded picture: handleEditImageUpload and   *)
(* handleApplyUploadedImage.  No control of the page is bound to them, so  *)
(* they are followed as calls on an open or closed modal.                  *)

\* the File of the k-th pick: every pick makes a File object of its own
UploadedFile(k) ==
    [px |-> {Region("upload_" \o ToString(k), 0, 0)}, w |-> 512, h |-> 512]

\* handleEditImageUpload with a file whose type starts with image/
EditImageUpload ==
    /\ Quiescent
    /\ upload.picks < MaxUploads
    /\ LET file == UploadedFile(upload.picks + 1)
           u == IF upload.url # NoUrl THEN RevokeObjectURL(upload, upload.url) ELSE upload
       IN  upload' = [u EXCEPT !.image = file, !.url = CreateObjectURL(file), !.picks = @ + 1]
    /\ UNCHANGED <<slice, segments, status, error, settings, ui, edit, fs, reqs, dimReqs, hist, net, zip, server>>

\* handleEditImageUpload with a file of another type
EditImageUploadRefused ==
    /\ Quiescent
    /\ upload.picks < MaxUploads
    /\ error' = "Please upload an image file."
    /\ upload' = [upload EXCEPT !.picks = @ + 1]
    /\ UNCHANGED <<slice, segments, status, settings, ui, edit, fs, reqs, dimReqs, hist, net, zip, server>>

\* handleApplyUploadedImage: it awaits nothing, so it runs to its end, its
\* closeEditModal() included
ApplyUploadedImage ==
    /\ Quiescent
    /\ edit.seg # NoSegment
    /\ upload.image # NoBlob
    /\ LET newBlob == upload.image
           newDataUrl == IF upload.url # NoUrl THEN upload.url ELSE edit.seg.dataUrl
       IN  segments' = ReplaceImage(MarkProcessing(segments, edit.seg.id, TRUE),
                                    edit.seg.id, newBlob, newDataUrl)
    /\ edit' = CloseModal([edit EXCEPT !.isAdjustingResolution = TRUE])
    /\ upload' = CloseUpload(upload)
    /\ UNCHANGED <<slice, status, error, settings, ui, fs, reqs, dimReqs, hist, net, zip, server>>

----------------------------------------------------------------------------
(* The server (server/index.js).  A key is the sequence of its characters. *)

\* String.prototype.substring(0, end) and slice(-n), for 0 <= end and 0 < n
Substring0(str, end) == SubSeq(str, 1, IF end < Len(str) THEN end ELSE Len(str))
SliceLast(str, n) == SubSeq(str, (IF Len(str) > n THEN Len(str) - n ELSE 0) + 1, Len(str))

\* String.prototype.includes(sub)
Includes(str, sub) ==
    \E i \in 1..(Len(str) - Len(sub) + 1) : SubSeq(str, i, i + Len(sub) - 1) = sub

\* '...'
Dots == <<".", ".", ".">>

\* maskedConfig.apiKey.substring(0, 4) + '...' + maskedConfig.apiKey.slice(-4)
MaskKey(apiKey) == Substring0(apiKey, 4) \o Dots \o SliceLast(apiKey, 4)

\* the body of GET /api/config: the key masked `if (maskedConfig.apiKey)`
MaskedConfig(apiKey) == IF apiKey # <<>> THEN MaskKey(apiKey) ELSE apiKey

\* KeptKey that takes the posted key whatever it looks like
KeptKey_AsPosted(newKey, oldKey) == newKey

\* the key POST /api/config writes: the old one
\* `if (newConfig.apiKey && newConfig.apiKey.includes('...'))`
KeptKey(newKey, oldKey) ==
    IF newKey # <<>> /\ Includes(newKey, Dots) THEN oldKey ELSE newKey

\* the routes in the order they are registered: app.get / app.post, and last
\* the catch-all app.get('*')
Routes ==
    << [method |-> "GET",  path |-> "/api/config",          handler |-> "getConfig"],
       [method |-> "POST", path |-> "/api/config",          handler |-> "postConfig"],
       [method |-> "POST", path |-> "/api/generate-labels", handler |-> "generateLabels"],
       [method |-> "POST", path |-> "/api/generate-sheet",  handler |-> "generateSheet"],
       [method |-> "POST", path |-> "/api/regenerate",      handler |-> "regenerate"],
       [method |-> "GET",  path |-> "*",                    handler |-> "spa"] >>

\* the first registered route that matches the request; without one Express
\* answers itself: 404 with the page "Cannot POST /path"
RECURSIVE Dispatch(_, _, _)
Dispatch(routes, method, path) ==
    IF routes = <<>> THEN "notFound"
    ELSE IF Head(routes).method = method /\ Head(routes).path \in {path, "*"}
         THEN Head(routes).handler
         ELSE Dispatch(Tail(routes), method, path)

\* no request was served yet
NoRequest == [method |-> "", path |-> "", apiKey |-> <<>>]
NoResponse == [by |-> "", code |-> 0, body |-> "", apiKey |-> <<>>]

\* no server is looked at
NoServer == [pc |-> "none", apiKey |-> <<>>, dist |-> FALSE, req |-> NoRequest, res |-> NoResponse]

\* what the handler `by` answers to request req; upstream tells whether the
\* call of the AI service succeeded
Respond(by, req, upstream) ==
    CASE by = "getConfig" ->
            [by |-> by, code |-> 200, body |-> "config", apiKey |-> MaskedConfig(server.apiKey)]
      [] by = "postConfig" ->
            [by |-> by, code |-> 200, body |-> "success", apiKey |-> <<>>]
      [] by \in {"generateLabels", "generateSheet", "regenerate"} ->
            IF server.apiKey = <<>>
            THEN [by |-> by, code |-> 400, body |-> "error", apiKey |-> <<>>]
            ELSE IF upstream
                 THEN [by |-> by, code |-> 200, body |-> "data", apiKey |-> <<>>]
                 ELSE [by |-> by, code |-> 500, body |-> "error", apiKey |-> <<>>]
      [] by = "spa" ->
            IF server.dist
            THEN [by |-> by, code |-> 200, body |-> "html", apiKey |-> <<>>]
            ELSE [by |-> by, code |-> 404, body |-> "text", apiKey |-> <<>>]
      [] OTHER ->
            [by |-> "notFound", code |-> 404, body |-> "html", apiKey |-> <<>>]

\* one request served: routed, answered, and the config file written by
\* POST /api/config
Serve(method, path, key, upstream) ==
    /\ server.pc = "listening"
    /\ LET req == [method |-> method, path |-> path, apiKey |-> key]
           by  == Dispatch(Routes, method, path)
       IN  server' = [server EXCEPT
                        !.req = req,
                        !.res = Respond(by, req, upstream),
                        !.apiKey = IF by = "postConfig" THEN KeptKey(key, server.apiKey) ELSE @]
    /\ UNCHANGED <<slice, segments, status, error, settings, ui, edit, fs, reqs, dimReqs, hist, net, zip, upload>>

\* saveSettings of a client that loaded the settings on mount and changed
\* nothing: the object GET /api/config returned is posted back
PostBack ==
    /\ server.res.by = "getConfig"
    /\ Serve("POST", "/api/config", server.res.apiKey, TRUE)

----------------------------------------------------------------------------
(* handleDownload.  A label is spelled out here as the sequence of its     *)
(* characters, a character being a one-letter string; an ideograph of the  *)
(* range U+4E00..U+9FA5 is written by its code point.                      *)

LowerCase ==
    {"a", "b", "c", "d", "e", "f", "g", "h", "i", "j", "k", "l", "m",
     "n", "o", "p", "q", "r", "s", "t", "u", "v", "w", "x", "y", "z"}
UpperCase ==
    {"A", "B", "C", "D", "E", "F", "G", "H", "I", "J", "K", "L", "M",
     "N", "O", "P", "Q", "R", "S", "T", "U", "V", "W", "X", "Y", "Z"}
Digits == {"0", "1", "2", "3", "4", "5", "6", "7", "8", "9"}
Ideographs == {"U+4E00", "U+732B", "U+9FA5"}

\* the characters the class [a-z0-9-_\u4e00-\u9fa5] matches under the i flag
SafeChars == LowerCase \cup UpperCase \cup Digits \cup {"-", "_"} \cup Ideographs

\* seg.label.replace(/[^a-z0-9-_\u4e00-\u9fa5]/gi, '_')
SafeLabel(label) ==
    [i \in 1..Len(label) |-> IF label[i] \in SafeChars THEN label[i] ELSE "_"]

\* `${safeLabel}.png`
PngName(label) == SafeLabel(label) \o <<".png">>

\* zip.file(name, data): the entry `name` is created, or replaced when it exists
ZipFile(archive, name, data) ==
    [files |-> [n \in DOMAIN archive.files \cup {name} |->
                    IF n = name THEN data ELSE archive.files[n]],
     added |-> archive.added + 1,
     pc    |-> archive.pc]

\* segments.forEach((seg) => zip.file(`${safeLabel}.png`, seg.blob)), first to last
RECURSIVE ZipAll(_, _)
ZipAll(archive, segs) ==
    IF segs = <<>> THEN archive
    ELSE ZipAll(ZipFile(archive, PngName(Head(segs).label), Head(segs).blob), Tail(segs))

\* handleDownload, from the grid's Download button, up to `await zip.generateAsync`
\* (one call at a time is followed: `zip` is a local of the call)
Download ==
    /\ Quiescent
    /\ GridShown
    /\ zip.pc # "generating"
    /\ Len(segments) # 0
    /\ zip' = [ZipAll(NoArchive, segments) EXCEPT !.pc = "generating"]
    /\ UNCHANGED <<slice, segments, status, error, settings, ui, edit, fs, reqs, dimReqs, hist, net, server, upload>>

\* handleDownload resumed: the archive is saved as stickers-pack.zip
ZipGenerated ==
    /\ Quiescent
    /\ zip.pc = "generating"
    /\ zip' = [zip EXCEPT !.pc = "saved"]
    /\ UNCHANGED <<slice, segments, status, error, settings, ui, edit, fs, reqs, dimReqs, hist, net, server, upload>>

\* handleDownload resumed in its catch
ZipFailed ==
    /\ Quiescent
    /\ zip.pc = "generating"
    /\ zip' = [zip EXCEPT !.pc = "failed"]
    /\ error' = "Failed to generate ZIP file."
    /\ UNCHANGED <<slice, segments, status, settings, ui, edit, fs, reqs, dimReqs, hist, net, server, upload>>

----------------------------------------------------------------------------
(* Specifications *)

vars == <<slice, segments, status, error, settings, ui, edit, fs, reqs, dimReqs, hist, net, zip, server, upload>>

\* the slicer on its own: one sliceImage call on any file and grid shape
Shapes == {rc \in (1..MaxCells) \X (1..MaxCells) : rc[1] * rc[2] <= MaxCells}

SliceFiles ==
    {[name |-> "A", ok |-> TRUE, w |-> w, h |-> h] : w \in 0..MaxDim, h \in 0..MaxDim}
        \cup {[name |-> "A", ok |-> FALSE, w |-> 0, h |-> 0]}

InitSlice ==
    /\ InitApp
    /\ server = NoServer
    /\ net = NoCall
    /\ \E file \in SliceFiles, rc \in Shapes : slice = SliceCall(file, rc[1], rc[2])

NextSlice ==
    \/ ImgOnError
    \/ ImgOnLoadTooSmall
    \/ ImgOnLoadNoContext
    \/ ImgOnLoadDraw
    \/ \E cb \in slice.pending : ToBlobDone(cb)
    \/ \E cb \in slice.pending : ToBlobNull(cb)

SpecSlice == InitSlice /\ [][NextSlice]_vars

\* one collaborator call on its own
InitFetch ==
    /\ InitApp
    /\ server = NoServer
    /\ slice = NoSlice
    /\ \E kind \in Collaborators : net = FetchCall(kind)

NextFetch ==
    \/ \E code \in StatusCodes, body \in Bodies : FetchResponds(code, body)
    \/ FetchFails
    \/ BodyRead

SpecFetch == InitFetch /\ [][NextFetch]_vars

\* handleDownload on its own: a complete batch of the App's grid, each
\* label any text of at most MaxLabelLen characters (the label list of the
\* collaborator and the label inputs of the grid can make any)
LabelChars == {"a", "_", " "}
LabelTexts == UNION {[1..n -> LabelChars] : n \in 0..MaxLabelLen}

SheetCell(i) ==
    LET file == [name |-> "A", ok |-> TRUE, w |-> 512 * AppCols, h |-> 512 * AppRows]
        x == (i - 1) % AppCols
        y == (i - 1) \div AppCols
        drawn == DrawCell(NewCanvas(512, 512), file, x, y)
    IN  [NewSegment(x, y, AppCols, ToDataURL(drawn), BlobOf(drawn)) EXCEPT !.isProcessing = FALSE]

InitDownload ==
    /\ zip = NoArchive
    /\ upload = NoUpload
    /\ server = NoServer
    /\ net = NoCall
    /\ slice = NoSlice
    /\ \E labels \in [1..(AppRows * AppCols) -> LabelTexts] :
          segments = [i \in 1..(AppRows * AppCols) |-> [SheetCell(i) EXCEPT !.label = labels[i]]]
    /\ status = "complete"
    /\ error = NoError
    /\ settings = [apiKey |-> "key", loaded |-> TRUE]
    /\ ui = [isSettingsOpen |-> FALSE, hasConfigured |-> TRUE, isGenerating |-> FALSE, rev |-> 2]
    /\ edit = ClosedModal
    /\ fs = [pc |-> "none", file |-> NoSlice.file]
    /\ reqs = {}
    /\ dimReqs = {}
    /\ hist = [nextReq |-> 1, resets |-> 0, edits |-> 0, upscaleCalls |-> 0, resizeCalls |-> 0]

NextDownload ==
    \/ Download
    \/ ZipGenerated
    \/ ZipFailed

SpecDownload == InitDownload /\ [][NextDownload]_vars

\* the server on its own: any key in its config file, any request of the
\* README's API table and some beside it
KeyTexts == UNION {[1..n -> {"a", "b"}] : n \in 0..MaxKeyLen}
TypedKeys == UNION {[1..n -> {"c", "."}] : n \in 0..MaxTypedLen}

ApiTable ==
    {[method |-> "GET",  path |-> "/api/config"],
     [method |-> "POST", path |-> "/api/config"],
     [method |-> "POST", path |-> "/api/generate-labels"],
     [method |-> "POST", path |-> "/api/generate-sheet"],
     [method |-> "POST", path |-> "/api/regenerate"],
     [method |-> "POST", path |-> "/api/upscale"]}

Requests == ApiTable \cup {[method |-> "GET", path |-> "/"], [method |-> "POST", path |-> "/"]}

InitServer ==
    /\ InitApp
    /\ slice = NoSlice
    /\ net = NoCall
    /\ \E key \in KeyTexts, dist \in BOOLEAN :
          server = [NoServer EXCEPT !.pc = "listening", !.apiKey = key, !.dist = dist]

NextServer ==
    \/ \E r \in Requests, upstream \in BOOLEAN : Serve(r.method, r.path, <<>>, upstream)
    \/ \E key \in TypedKeys : Serve("POST", "/api/config", key, TRUE)
    \/ PostBack

SpecServer == InitServer /\ [][NextServer]_vars

\* the edit modal with the upload handlers on a complete batch
InitUpload ==
    /\ zip = NoArchive
    /\ upload = NoUpload
    /\ server = NoServer
    /\ net = NoCall
    /\ slice = NoSlice
    /\ segments = [i \in 1..(AppRows * AppCols) |-> SheetCell(i)]
    /\ status = "complete"
    /\ error = NoError
    /\ settings = [apiKey |-> "key", loaded |-> TRUE]
    /\ ui = [isSettingsOpen |-> FALSE, hasConfigured |-> TRUE, isGenerating |-> FALSE, rev |-> 2]
    /\ edit = ClosedModal
    /\ fs = [pc |-> "none", file |-> NoSlice.file]
    /\ reqs = {}
    /\ dimReqs = {}
    /\ hist = [nextReq |-> 1, resets |-> 0, edits |-> 0, upscaleCalls |-> 0, resizeCalls |-> 0]

NextUpload ==
    \/ \E i \in 1..(AppRows * AppCols) : OpenEditModal(i)
    \/ \E d \in dimReqs : DimensionsDone(d)
    \/ CloseEditModal
    \/ EditImageUpload
    \/ EditImageUploadRefused
    \/ ApplyUploadedImage

SpecUpload == InitUpload /\ [][NextUpload]_vars

\* the App
Init ==
    /\ InitApp
    /\ server = NoServer
    /\ slice = NoSlice
    /\ net = NoCall

Next ==
    \/ NextSlice
    \/ \E key \in {"", "key"} : LoadConfigDone(key)
    \/ LoadConfigFailed
    \/ OpenSettings
    \/ CloseSettings
    \/ SaveSettingsDone
    \/ SaveSettingsFailed
    \/ FileSelectNoKey
    \/ \E file \in AppFiles : FileSelect(file)
    \/ FileSelectSliced
    \/ FileSelectSliceFailed
    \/ \E labels \in LabelLists : LabelsDone(labels)
    \/ LabelsFailedAuth
    \/ LabelsFailed
    \/ GenerateNoKey
    \/ Generate
    \/ \E file \in AppFiles : GenerateDone(file)
    \/ GenerateFailed
    \/ \E id \in 0..(AppRows * AppCols - 1), newLabel \in UserLabels : UpdateLabel(id, newLabel)
    \/ Reset
    \/ \E i \in 1..(AppRows * AppCols) : OpenEditModal(i)
    \/ \E d \in dimReqs : DimensionsDone(d)
    \/ \E d \in dimReqs : DimensionsFailed(d)
    \/ CloseEditModal
    \/ \E p \in EditPrompts : SetEditPrompt(p)
    \/ \E preset \in PresetChoices : SelectResolution(preset)
    \/ RegenerateSticker
    \/ \E r \in reqs : RegenerateDone(r)
    \/ \E r \in reqs : RegenerateFailed(r)
    \/ ApplyResolution
    \/ \E r \in reqs : ApplyResolutionDone(r)
    \/ \E r \in reqs : ApplyResolutionFailed(r)

Spec == Init /\ [][Next]_vars

\* the App whose user leaves the edit modal alone: settings, upload or
\* generation, slicing, label enrichment, label edits, reset; the label
\* collaborator may also answer with a list shorter than the batch
FlowLabelLists == LabelLists \cup {<<"cat">>, <<"", "dog">>}

NextFlow ==
    \/ NextSlice
    \/ \E key \in {"", "key"} : LoadConfigDone(key)
    \/ LoadConfigFailed
    \/ OpenSettings
    \/ CloseSettings
    \/ SaveSettingsDone
    \/ SaveSettingsFailed
    \/ FileSelectNoKey
    \/ \E file \in AppFiles : FileSelect(file)
    \/ FileSelectSliced
    \/ FileSelectSliceFailed
    \/ \E labels \in FlowLabelLists : LabelsDone(labels)
    \/ LabelsFailedAuth
    \/ LabelsFailed
    \/ GenerateNoKey
    \/ Generate
    \/ \E file \in AppFiles : GenerateDone(file)
    \/ GenerateFailed
    \/ \E id \in 0..(AppRows * AppCols - 1), newLabel \in UserLabels : UpdateLabel(id, newLabel)
    \/ Reset

SpecFlow == Init /\ [][NextFlow]_vars

\* the same with the scheduling the browser gives: a decode ends (onload or
\* onerror), every toBlob callback is called, a continuation of a settled
\* promise runs, and a request to a collaborator settles.  Nothing makes the
\* user act.
Settling ==
    /\ WF_vars(ImgOnError \/ ImgOnLoadTooSmall \/ ImgOnLoadNoContext \/ ImgOnLoadDraw)
    /\ WF_vars(\E cb \in slice.pending : ToBlobDone(cb) \/ ToBlobNull(cb))
    /\ WF_vars(FileSelectSliced \/ FileSelectSliceFailed)
    /\ WF_vars((\E labels \in FlowLabelLists : LabelsDone(labels)) \/ LabelsFailedAuth \/ LabelsFailed)
    /\ WF_vars((\E file \in AppFiles : GenerateDone(file)) \/ GenerateFailed)

SpecLive == Init /\ [][NextFlow]_vars /\ Settling

\* the same handlers in revision 1 of App.tsx, which renders the grid, its
\* label inputs and its reset button while the labels are awaited (its edit
\* button is not rendered and its download button is disabled until then)
InitRev1 ==
    /\ zip = NoArchive
    /\ upload = NoUpload
    /\ server = NoServer
    /\ net = NoCall
    /\ slice = NoSlice
    /\ segments = <<>>
    /\ status = "idle"
    /\ error = NoError
    /\ settings = [apiKey |-> "", loaded |-> FALSE]
    /\ ui = [isSettingsOpen |-> FALSE, hasConfigured |-> FALSE, isGenerating |-> FALSE, rev |-> 1]
    /\ edit = ClosedModal
    /\ fs = [pc |-> "none", file |-> NoSlice.file]
    /\ reqs = {}
    /\ dimReqs = {}
    /\ hist = [nextReq |-> 1, resets |-> 0, edits |-> 0, upscaleCalls |-> 0, resizeCalls |-> 0]

SpecRev1 == InitRev1 /\ [][NextFlow]_vars

----------------------------------------------------------------------------
(* Properties of the slicer (SpecSlice) *)

\* the canvas of the call has pixels: width/cols >= 1 and height/rows >= 1
CellHasPixels ==
    /\ slice.rows >= 1 /\ slice.cols >= 1
    /\ slice.file.w >= slice.cols /\ slice.file.h >= slice.rows

\* C1: a sliceImage call on a grid whose cells have at least one pixel, once
\* resolved, has returned exactly rows*cols segments whose ids are
\* 0 .. rows*cols-1, each once, in ascending order.
SliceReturnsEveryCellOnce ==
    (slice.pc = "resolved" /\ CellHasPixels) =>
        /\ Len(slice.result) = slice.rows * slice.cols
        /\ \A i \in 1..Len(slice.result) : slice.result[i].id = i - 1

\* a resolved call on a non-square grid whose width is no multiple of cols
SliceResolvedNonSquare ==
    /\ slice.pc = "resolved"
    /\ slice.rows # slice.cols
    /\ slice.rows * slice.cols >= 3
    /\ slice.file.w % slice.cols # 0

\* C2: whatever the order in which the toBlob callbacks fired, the sequence
\* passed to resolve is sorted by id ascending, and resolve has happened only
\* when every one of the rows*cols callbacks has fired and pushed.
ResolveSortedAfterLastCallback ==
    /\ slice.pc = "resolved" =>
          /\ \A i, j \in 1..Len(slice.result) : i < j => slice.result[i].id < slice.result[j].id
          /\ slice.pending = {}
          /\ slice.failed = {}
          /\ Len(slice.order) = slice.rows * slice.cols
    /\ slice.pc # "resolved" => slice.result = <<>>

\* a resolved call whose callbacks did not fire in id order
ResolvedOutOfOrder ==
    /\ slice.pc = "resolved"
    /\ \E i \in 1..(Len(slice.order) - 1) : slice.order[i] > slice.order[i + 1]

\* C9 as claimed: once the image has loaded and no callback is outstanding,
\* a call whose cell width or height rounds down to 0 has been rejected and
\* has produced no segments.
ZeroCellSliceRejected ==
    ( /\ slice.pc \in {"encoding", "resolved", "rejected"}
      /\ slice.pending = {}
      /\ slice.file.ok
      /\ \/ ToUnsignedLong(slice.file.w, slice.cols) = 0
         \/ ToUnsignedLong(slice.file.h, slice.rows) = 0 )
    => (slice.pc = "rejected" /\ slice.result = <<>>)

\* C10 as claimed: once a toBlob callback of a call with non-empty cells has
\* got null and no callback is outstanding, the promise has been rejected.
EncodeFailureRejected ==
    (CellHasPixels /\ slice.failed # {} /\ slice.pending = {})
    => slice.pc = "rejected"

----------------------------------------------------------------------------
(* Properties of the App (Spec) *)

\* the completion steps of request r
RequestFailed(r) == RegenerateFailed(r) \/ ApplyResolutionFailed(r)
RequestDone(r) == RegenerateDone(r) \/ ApplyResolutionDone(r)

\* C3 as claimed: no two mutations of the same segment (same id, same batch)
\* are in flight together.
OneMutationPerSegment ==
    \A r1, r2 \in reqs : (r1.id = r2.id /\ r1.epoch = r2.epoch) => r1 = r2

\* C4 as claimed: the result of a request started before a handleReset
\* changes neither the segments collection nor status.
StaleResultDiscarded ==
    [][\A r \in reqs :
          (r.epoch < hist.resets /\ (RequestDone(r) \/ RequestFailed(r)))
              => (segments' = segments /\ status' = status)]_vars

\* C5: a handleApplyResolution call with target T <= current width W calls
\* resizeImage once and the upscale collaborator not at all, neither at the
\* call nor when the request settles, and the image swapped in is T x T.
DownscaleIsLocal ==
    [][ /\ (ApplyResolution /\ edit.selectedResolution <= edit.currentDimensions.width) =>
            /\ hist'.upscaleCalls = hist.upscaleCalls
            /\ hist'.resizeCalls = hist.resizeCalls + 1
            /\ \E r \in reqs' : reqs' = reqs \cup {r} /\ r \notin reqs /\ r.kind = "resize"
        /\ \A r \in reqs : (r.kind = "resize" /\ (RequestDone(r) \/ RequestFailed(r))) =>
            /\ hist'.upscaleCalls = hist.upscaleCalls
            /\ hist'.resizeCalls = hist.resizeCalls
            /\ reqs' = reqs \ {r}
        /\ \A r \in reqs : (r.kind = "resize" /\ RequestDone(r)) =>
            \A i \in 1..Len(segments') : segments'[i].id = r.id =>
                (segments'[i].blob.w = r.target /\ segments'[i].blob.h = r.target)
      ]_vars

\* a segment resized locally to the very size it had (T = W), with no remote call
ResizedToEqualSize ==
    /\ hist.upscaleCalls = 0 /\ hist.resizeCalls = 1
    /\ \E i \in 1..Len(segments) :
          /\ segments[i].dataUrl.kind = "blob"
          /\ ~RemoteMade(segments[i].blob)
          /\ segments[i].blob.w = 512

\* C6: a handleApplyResolution call with target T > current width W calls
\* the upscale collaborator once and resizeImage not at all; when the
\* request fails nothing is called again (no retry), the request is over and
\* the error is set.
UpscaleIsOneRemoteCall ==
    [][ /\ (ApplyResolution /\ edit.selectedResolution > edit.currentDimensions.width) =>
            /\ hist'.upscaleCalls = hist.upscaleCalls + 1
            /\ hist'.resizeCalls = hist.resizeCalls
            /\ \E r \in reqs' : reqs' = reqs \cup {r} /\ r \notin reqs /\ r.kind = "upscale"
        /\ \A r \in reqs : (r.kind = "upscale" /\ (RequestDone(r) \/ RequestFailed(r))) =>
            /\ hist'.upscaleCalls = hist.upscaleCalls
            /\ hist'.resizeCalls = hist.resizeCalls
            /\ reqs' = reqs \ {r}
        /\ \A r \in reqs : (r.kind = "upscale" /\ RequestFailed(r)) => error' # NoError
      ]_vars

\* an upscale failed after its one remote call and nothing is in flight
UpscaleFailedOnce ==
    /\ error = "Failed to upscale image"
    /\ hist.upscaleCalls = 1 /\ hist.resizeCalls = 0
    /\ reqs = {}

SuccessReplacesOnlyTarget ==
    [][\A r \in reqs : ApplyResolutionDone(r) =>
          /\ Len(segments') = Len(segments)
          /\ \A i \in 1..Len(segments) :
                IF segments[i].id = r.id
                THEN /\ segments'[i].blob = AdjustedBlob(r)
                     /\ segments'[i].dataUrl.px = AdjustedBlob(r).px
                     /\ segments'[i].dataUrl.w = r.target
                     /\ segments'[i].dataUrl.h = r.target
                     /\ segments'[i].id = segments[i].id
                     /\ segments'[i].label = segments[i].label
                     /\ segments'[i].isProcessing = FALSE
                ELSE segments'[i] = segments[i]]_vars

\* a segment with an AI label was adjusted to another size beside an untouched sibling
AdjustedBesideSibling ==
    \E i, j \in 1..Len(segments) :
        /\ segments[i].dataUrl.kind = "blob"
        /\ segments[i].blob.w # 512
        /\ segments[i].label = "cat"
        /\ ~segments[i].isProcessing
        /\ segments[j].dataUrl.kind = "data"

\* the store is empty, or holds the whole batch in id order
StoreShape ==
    \/ segments = <<>>
    \/ /\ Len(segments) = AppRows * AppCols
       /\ \A i \in 1..Len(segments) : segments[i].id = i - 1

\* C11: from the moment a slice result is stored until handleReset or the
\* next slice empties the store, the collection has exactly rows*cols
\* members with ids 0 .. rows*cols-1 in ascending order, and no step (label
\* pass, label edit, regeneration, resolution adjustment, their failures)
\* changes the id of a stored segment.
StoreKeepsBatch ==
    /\ []StoreShape
    /\ [][(segments # <<>> /\ segments' # <<>>) =>
            /\ Len(segments') = Len(segments)
            /\ \A i \in 1..Len(segments) : segments'[i].id = segments[i].id]_vars

\* the batch after a label pass, a user's label edit, a failed request and a
\* successful image replacement
StoreAfterEveryOperation ==
    /\ Len(segments) = AppRows * AppCols
    /\ status = "complete"
    /\ error \in {"Failed to regenerate sticker", "Failed to upscale image"}
    /\ hist.edits = 1
    /\ reqs = {}
    /\ \E i \in 1..Len(segments) : segments[i].dataUrl.kind = "blob"
    /\ \E i \in 1..Len(segments) : segments[i].label = "cat"

\* blob and dataUrl of segment s show the same picture at the same size
SameImage(s) ==
    /\ s.dataUrl.px = s.blob.px
    /\ s.dataUrl.w = s.blob.w
    /\ s.dataUrl.h = s.blob.h

\* C12: in every state, every stored segment's dataUrl shows the picture of
\* its blob (an image is swapped in as a pair), and every segment a toBlob
\* callback of sliceImage has pushed has a dataUrl and a blob that both show
\* exactly the cell (x, y) with id = y*cols + x, although the one canvas was
\* redrawn for later cells before the callback fired.
BlobMatchesPreview ==
    /\ \A i \in 1..Len(segments) : SameImage(segments[i])
    /\ \A i \in 1..Len(slice.segments) :
          /\ SameImage(slice.segments[i])
          /\ \E x \in 0..(slice.cols - 1), y \in 0..(slice.rows - 1) :
                /\ slice.segments[i].id = y * slice.cols + x
                /\ slice.segments[i].blob.px =
                       {Region(slice.file.name, x * slice.file.w, y * slice.file.h)}

\* a remote result was swapped into one segment while a request on a sibling
\* is still in flight
SwappedWhileSiblingBusy ==
    \E i, j \in 1..Len(segments) :
        /\ i # j
        /\ segments[i].dataUrl.kind = "blob"
        /\ RemoteMade(segments[i].blob)
        /\ ~segments[i].isProcessing
        /\ segments[j].isProcessing
        /\ \E r \in reqs : r.id = segments[j].id

\* an operation that produces or replaces the image of segment `id`, or
\* completes its initial batch, is in flight
InFlightFor(id) ==
    \/ fs.pc \in {"awaitSlice", "awaitLabels"}
    \/ \E r \in reqs : r.id = id

\* C13 as claimed: a stored segment's isProcessing is true only while such an
\* operation is in flight for it; once all of them have completed or failed
\* (a label request failed with 401/403 included) the flag is false.
ProcessingOnlyWhileInFlight ==
    \A i \in 1..Len(segments) : segments[i].isProcessing => InFlightFor(segments[i].id)

\* C14 as claimed: whenever handleApplyResolution starts on segment s, the
\* currentDimensions it compares the target with are the dimensions of the
\* blob s holds in the store, whatever openEditModal calls came before and
\* in whatever order their getImageDimensions promises settled.
AppliesWithOwnDimensions ==
    [][ApplyResolution =>
          \A i \in 1..Len(segments) :
              segments[i].id = edit.seg.id =>
                  edit.currentDimensions = ImageDimensions(segments[i].blob)]_vars

\* the image the success path of request r swaps in
NewBlob(r) == IF r.kind = "regenerate" THEN RegeneratedBlob(r) ELSE AdjustedBlob(r)

\* C15: while requests on two different segments are in flight, the
\* successful completion of one, in whatever order they arrive, writes its
\* own new image into its own segment and clears that flag, leaves the
\* other request in flight and leaves the other segment (and every other)
\* as it was; so after both have completed each segment holds its own result.
ResultsStaySeparate ==
    [][\A r1, r2 \in reqs :
          (r1.id # r2.id /\ RequestDone(r1)) =>
              /\ r2 \in reqs'
              /\ r1 \notin reqs'
              /\ Len(segments') = Len(segments)
              /\ \A i \in 1..Len(segments) :
                    IF segments[i].id = r1.id
                    THEN /\ segments'[i].blob = NewBlob(r1)
                         /\ segments'[i].dataUrl.px = NewBlob(r1).px
                         /\ ~segments'[i].isProcessing
                    ELSE segments'[i] = segments[i]]_vars

\* the request started second has completed into its own segment while the
\* request started first, on the other segment, is still in flight
LaterRequestLandedFirst ==
    \E r \in reqs, i, j \in 1..Len(segments) :
        /\ r.n = 1
        /\ r.epoch = hist.resets
        /\ segments[j].id = r.id
        /\ segments[j].isProcessing
        /\ segments[j].dataUrl.kind = "data"
        /\ segments[i].id # r.id
        /\ ~segments[i].isProcessing
        /\ \E reg \in segments[i].blob.px : reg.src \in {"regenerate", "upscale"} /\ reg.sx = 2

----------------------------------------------------------------------------
(* Further properties of the slicer (SpecSlice) *)

\* segment s is the cell at column x, row y of the call
IsCell(s, x, y) ==
    /\ s.id = y * slice.cols + x
    /\ s.dataUrl.px = {Region(slice.file.name, x * slice.file.w, y * slice.file.h)}
    /\ s.blob.px = {Region(slice.file.name, x * slice.file.w, y * slice.file.h)}
    /\ s.label = "sticker_" \o ToString(y * slice.cols + x + 1)
    /\ s.isProcessing

\* C16: every segment sliceImage makes is the cell (x, y) of some row y in
\* [0, rows) and column x in [0, cols): id y*cols + x, the source region at
\* offset (x*w, y*h), label "sticker_" + (id+1), isProcessing true; and a
\* resolved call has made the segment of every cell, id 0 for the top-left
\* and id rows*cols-1 for the bottom-right cell, rows = cols or not.
EveryCellBecomesItsSegment ==
    /\ \A i \in 1..Len(slice.segments) :
          \E x \in 0..(slice.cols - 1), y \in 0..(slice.rows - 1) :
              IsCell(slice.segments[i], x, y)
    /\ slice.pc = "resolved" =>
          /\ \A x \in 0..(slice.cols - 1), y \in 0..(slice.rows - 1) :
                /\ y * slice.cols + x + 1 \in 1..Len(slice.result)
                /\ IsCell(slice.result[y * slice.cols + x + 1], x, y)
          /\ IsCell(slice.result[1], 0, 0)
          /\ IsCell(slice.result[Len(slice.result)], slice.cols - 1, slice.rows - 1)

\* a resolved call on a grid with more rows than columns and at least 3 cells
TallGridSliced ==
    /\ slice.pc = "resolved"
    /\ slice.rows > slice.cols
    /\ Len(slice.result) >= 3
    /\ slice.result[Len(slice.result)].label = "sticker_" \o ToString(slice.rows * slice.cols)
    /\ slice.order[1] # 0

\* C17 as claimed: the segments of a resolved call all have the same pixel
\* dimensions, and these are exactly (W/cols, H/rows), also when W is no
\* multiple of cols or H no multiple of rows.
CellSizeIsExactQuotient ==
    slice.pc = "resolved" =>
        \A i \in 1..Len(slice.result) :
            /\ slice.result[i].blob.w * slice.cols = slice.file.w
            /\ slice.result[i].blob.h * slice.rows = slice.file.h
            /\ slice.result[i].blob.w = slice.result[1].blob.w
            /\ slice.result[i].blob.h = slice.result[1].blob.h

\* C17 amended: the segments of a call all have the same pixel dimensions,
\* and these are (W/cols, H/rows) rounded down to whole pixels.
CellSizeIsQuotientRoundedDown ==
    /\ \A i \in 1..Len(slice.segments) :
          /\ slice.segments[i].blob.w = slice.file.w \div slice.cols
          /\ slice.segments[i].blob.h = slice.file.h \div slice.rows
          /\ slice.segments[i].dataUrl.w = slice.segments[i].blob.w
          /\ slice.segments[i].dataUrl.h = slice.segments[i].blob.h
    /\ slice.pc = "resolved" =>
          /\ Len(slice.result) = slice.rows * slice.cols
          /\ \A i \in 1..Len(slice.result) :
                /\ slice.result[i].blob.w = slice.file.w \div slice.cols
                /\ slice.result[i].blob.h = slice.file.h \div slice.rows
                /\ slice.result[i].blob.w = slice.result[1].blob.w
                /\ slice.result[i].blob.h = slice.result[1].blob.h

\* a resolved call on an image whose width and height both leave a remainder
SlicedWithRemainder ==
    /\ slice.pc = "resolved"
    /\ slice.file.w % slice.cols # 0
    /\ slice.file.h % slice.rows # 0
    /\ Len(slice.result) >= 2

----------------------------------------------------------------------------
(* Further properties of the App (Spec) *)

\* C18: while the label request is in flight the status is 'analyzing' and
\* the store holds the complete batch (the request is never in flight while
\* status is 'slicing' or the store is partly filled), and applying its
\* result changes nothing but label and isProcessing of the segments in the
\* store: none is created, removed or reordered, whatever the length of the
\* label list.
LabelsOnlyIntoStoredBatch ==
    /\ [](fs.pc = "awaitLabels" =>
            /\ status = "analyzing"
            /\ slice.pc = "none"
            /\ Len(segments) = AppRows * AppCols)
    /\ [][\A labels \in LabelLists : LabelsDone(labels) =>
            /\ Len(segments') = Len(segments)
            /\ \A i \in 1..Len(segments) :
                  /\ segments'[i].id = segments[i].id
                  /\ segments'[i].blob = segments[i].blob
                  /\ segments'[i].dataUrl = segments[i].dataUrl
                  /\ segments'[i].label \in
                        {segments[i].label} \cup {labels[k] : k \in 1..Len(labels)}]_vars

\* a label list longer than the batch, with an empty entry, has been applied
LongLabelListApplied ==
    /\ status = "complete"
    /\ fs.pc = "none"
    /\ Len(segments) = AppRows * AppCols
    /\ segments[1].label = "cat"
    /\ segments[2].label = "sticker_2"
    /\ \A i \in 1..Len(segments) : segments[i].dataUrl.kind = "data"

\* C19: a file that does not decode makes sliceImage reject without any
\* segment; handleFileSelect then leaves the store empty, sets status
\* 'error' and a message, and the label request is never started for it.
DecodeFailureStopsTheRun ==
    /\ []((slice.pc \in {"encoding", "resolved", "rejected"} /\ ~slice.file.ok) =>
            /\ slice.pc = "rejected"
            /\ slice.error # NoError
            /\ slice.segments = <<>>
            /\ slice.result = <<>>)
    /\ [](fs.pc = "awaitLabels" => fs.file.ok)
    /\ [][(FileSelectSliceFailed /\ ~slice.file.ok) =>
            /\ segments = <<>>
            /\ segments' = <<>>
            /\ status' = "error"
            /\ error' # NoError
            /\ fs'.pc = "none"]_vars

\* the run of a file that is no image has ended in the error panel
DecodeFailureShown ==
    /\ status = "error"
    /\ error = "Failed to load image"
    /\ segments = <<>>
    /\ fs.pc = "none"
    /\ slice.pc = "none"

----------------------------------------------------------------------------
(* Properties of the collaborator clients (SpecFetch) *)

\* C20: a call of generateStickerLabels, generateStickerSheet,
\* regenerateSticker or upscaleImage whose response has a status outside
\* 200-299 settles as rejected with an error that has a message, and returns
\* no label list and no image: a payload is returned only from a 2xx response.
NonOkResponseRejects ==
    /\ (net.pc = "settled" /\ net.code \in StatusCodes /\ net.code \notin 200..299) =>
          /\ net.outcome = "rejected"
          /\ net.message # ""
          /\ net.payload = NoPayload
    /\ net.payload # NoPayload => (net.outcome = "resolved" /\ net.code \in 200..299)

\* upscaleImage got a 404 whose body is no JSON, and has rejected
UpscaleGot404Page ==
    /\ net.pc = "settled"
    /\ net.kind = "upscaleImage"
    /\ net.code = 404
    /\ net.body = "html"
    /\ net.outcome = "rejected"

----------------------------------------------------------------------------
(* The download (SpecDownload) *)

\* C21: the archive handleDownload builds holds one entry per segment, each
\* entry a distinct .png name carrying that segment's blob, whatever the
\* labels are: equal, empty, or equal after the unsafe characters are
\* replaced by "_".
ArchiveHoldsEverySegment ==
    zip.pc # "none" =>
        /\ Cardinality(DOMAIN zip.files) = Len(segments)
        /\ \A i \in 1..Len(segments) :
              \E name \in DOMAIN zip.files :
                  /\ zip.files[name] = segments[i].blob
                  /\ name[Len(name)] = ".png"

----------------------------------------------------------------------------
(* The server (SpecServer) *)

\* C22: a request to an endpoint of the README's API table, POST
\* /api/upscale among them, is answered by a handler registered for that
\* endpoint, with data or a JSON error: never by the catch-all for the
\* single-page app and never by the default 404.
ApiTableIsServed ==
    [method |-> server.req.method, path |-> server.req.path] \in ApiTable =>
        /\ server.res.by \notin {"spa", "notFound"}
        /\ server.res.body \in {"config", "success", "data", "error"}

\* the request served last
Served(method, path) == server.req.method = method /\ server.req.path = path

\* the key holds the three dots of a masked value
MaskShaped(key) ==
    \E i \in 1..(Len(key) - 2) : key[i] = "." /\ key[i + 1] = "." /\ key[i + 2] = "."

Exposed(key, shown) ==
    {i \in 1..Len(key) :
        \/ i <= 4 /\ i <= Len(shown) /\ shown[i] = key[i]
        \/ /\ i > Len(key) - 4
           /\ Len(key) - i < Len(shown)
           /\ shown[Len(shown) - (Len(key) - i)] = key[i]}

\* key and other are equal in their first four and their last four characters
SameEnds(key, other) ==
    /\ Len(key) > 8
    /\ Len(other) > 8
    /\ SubSeq(key, 1, 4) = SubSeq(other, 1, 4)
    /\ SubSeq(key, Len(key) - 3, Len(key)) = SubSeq(other, Len(other) - 3, Len(other))

\* C30: the apiKey GET /api/config returns for a non-empty stored key is not
\* the stored key and leaves at least one character of it unexposed, the
\* first four and the last four being all it shows; stored keys that differ
\* in their middle only get the same answer.
MaskHidesKey ==
    (Served("GET", "/api/config") /\ server.apiKey # <<>>) =>
        /\ server.res.apiKey # server.apiKey
        /\ Exposed(server.apiKey, server.res.apiKey) # 1..Len(server.apiKey)
        /\ \A other \in KeyTexts :
              SameEnds(server.apiKey, other) => MaskedConfig(other) = server.res.apiKey

----------------------------------------------------------------------------
(* Label enrichment (SpecFlow) *)

\* C23: when the label request succeeds with list L, the segment at index
\* idx gets L[idx] if that is a non-empty string and keeps its label
\* otherwise (L shorter than the batch included); every segment's
\* isProcessing becomes false, status becomes 'complete', and no id, blob or
\* dataUrl changes.
LabelsAppliedByIndex ==
    [][\A labels \in FlowLabelLists : LabelsDone(labels) =>
          /\ status' = "complete"
          /\ Len(segments') = Len(segments)
          /\ \A idx \in 1..Len(segments) :
                /\ segments'[idx].label =
                      IF idx \in 1..Len(labels) /\ labels[idx] # ""
                      THEN labels[idx] ELSE segments[idx].label
                /\ ~segments'[idx].isProcessing
                /\ segments'[idx].id = segments[idx].id
                /\ segments'[idx].blob = segments[idx].blob
                /\ segments'[idx].dataUrl = segments[idx].dataUrl]_vars

\* the list <<"", "dog">> has been applied: the first segment kept its
\* placeholder, the second got its entry
EmptyEntryKeptPlaceholder ==
    /\ status = "complete"
    /\ fs.pc = "none"
    /\ Len(segments) = AppRows * AppCols
    /\ segments[1].label = "sticker_1"
    /\ segments[2].label = "dog"
    /\ \A i \in 1..Len(segments) : ~segments[i].isProcessing

\* C24: a failed label request never discards the slice.  Without 401/403 in
\* the message: status 'complete', every segment keeps id, label, blob and
\* dataUrl, isProcessing false.  With 401 or 403: status 'error', the
\* invalid-key message, hasConfigured false, the settings dialog open, the
\* segments unchanged.
LabelFailureKeepsSlice ==
    [][/\ LabelsFailed =>
             /\ status' = "complete"
             /\ segments' # <<>>
             /\ Len(segments') = Len(segments)
             /\ \A i \in 1..Len(segments) :
                   /\ segments'[i] = [segments[i] EXCEPT !.isProcessing = FALSE]
       /\ LabelsFailedAuth =>
             /\ status' = "error"
             /\ error' = "Invalid API Key. Please check settings."
             /\ ~ui'.hasConfigured
             /\ ui'.isSettingsOpen
             /\ segments' # <<>>
             /\ segments' = segments]_vars

\* the label request was refused for the API key and the slice is still stored
SliceKeptAfterRefusedKey ==
    /\ status = "error"
    /\ error = "Invalid API Key. Please check settings."
    /\ ui.isSettingsOpen
    /\ ~ui.hasConfigured
    /\ Len(segments) = AppRows * AppCols
    /\ \A i \in 1..Len(segments) : segments[i].label = DefaultLabel(segments[i].id)

----------------------------------------------------------------------------
(* Revision 1: the grid is shown while the labels are awaited (SpecRev1) *)

\* C25: status 'complete' implies a non-empty segments collection; from
\* 'idle' (after handleReset) the status moves only when an upload or a
\* generation starts, and no late callback takes the app from 'idle' to
\* 'complete' or 'error' with an empty collection.
CompleteMeansSegments ==
    /\ [](status = "complete" => Len(segments) > 0)
    /\ [][status = "idle" => status' \in {"idle", "slicing"}]_vars
    /\ [][(status = "idle" /\ status' \in {"complete", "error"}) => Len(segments') > 0]_vars

\* C26: a label the user set with handleUpdateLabel is not overwritten by a
\* label-enrichment result that arrives later.
UserLabelSurvivesEnrichment ==
    [][\A labels \in FlowLabelLists : LabelsDone(labels) =>
          \A i \in 1..Len(segments) :
              segments[i].label \in UserLabels => segments'[i].label = segments[i].label]_vars

----------------------------------------------------------------------------
(* Uploaded pictures (SpecUpload) *)

\* a blob that came from handleEditImageUpload
IsUploadedFile(blob) == \E k \in 1..(MaxUploads + 1) : blob = UploadedFile(k)

\* C27: a segment that handleApplyUploadedImage replaced holds the uploaded
\* file as its blob and, as its dataUrl, a URL of that same file that has
\* not been revoked, the modal having been closed by the same operation.
UploadedImageStaysShown ==
    \A i \in 1..Len(segments) :
        IsUploadedFile(segments[i].blob) =>
            /\ segments[i].dataUrl = CreateObjectURL(segments[i].blob)
            /\ segments[i].dataUrl \notin upload.revoked

----------------------------------------------------------------------------
(* Progress (SpecLive) *)

\* C28: once handleFileSelect has accepted a file (an API key is set and
\* the slicing has started), and the decode, every encode of a cell and the
\* label request each complete or fail, the status leaves 'slicing' and
\* 'analyzing' for good and reaches 'complete' or 'error'.
AcceptedFileSettles ==
    (fs.pc = "awaitSlice") ~> (status \in {"complete", "error"})

====
